---- MODULE Spec2Model ----
(***************************************************************************)
(* Playlist indexers (Spotify and Apple Music): one linear pass per call   *)
(* of index_playlist -- resolve the playlist id from the URL, fetch the    *)
(* metadata, fetch the track list, normalise each track and download its   *)
(* artwork, aggregate, write one JSON snapshot.                            *)
(*                                                                         *)
(* Text is a sequence of symbols.  A symbol is one character, except that  *)
(* the literal words of the program ("playlist", "playlist_images", ...)   *)
(* are single symbols; URLs of the model contain the word "playlist" only  *)
(* whole.  Python's None is the one-symbol text None.                      *)
(***************************************************************************)
EXTENDS Integers, Sequences, FiniteSets, TLC

\* ------------------------------------------------------------- bounds
MaxUrlLen == 6      \* longest URL of SpecExtract
MaxSmall  == 3      \* longest playlist of Spec
MaxRerun  == 1      \* longest playlist of SpecRerun
MaxPages  == 2      \* full pages of the playlists of SpecPages
MaxRuns   == 2      \* calls of index_playlist in one behaviour of SpecRerun
MaxClock  == 1      \* seconds the wall clock may advance
MaxNameLen == 1     \* symbols of an artist or title next to the padding

\* ------------------------------------------------- program constants
PageLimit  == 100   \* params['limit']
BadOffsetStep == PageLimit - 1
ZeroOffsetStep == PageLimit - PageLimit
OffsetStep == 100   \* params['offset'] += 100
AppleLimit == 300   \* 'limit': 300 of the Apple Music request
NameLimit  == 100   \* safe_name[:100]

None == <<"<None>">>
NoDur == 0 - 1      \* a track without a duration (Python None)

\* ------------------------------------------------------ text helpers
Last(s) == s[Len(s)]

MatchAt(s, sep, i) ==
    /\ i + Len(sep) - 1 <= Len(s)
    /\ SubSeq(s, i, i + Len(sep) - 1) = sep

\* Python: sep in s
Contains(s, sep) == \E i \in 1..Len(s) : MatchAt(s, sep, i)

\* index of the leftmost occurrence of sep in s, 0 when there is none
FirstIdx(s, sep) ==
    IF Contains(s, sep)
    THEN CHOOSE i \in 1..Len(s) :
            MatchAt(s, sep, i) /\ \A j \in 1..(i - 1) : ~MatchAt(s, sep, j)
    ELSE 0

\* Python: s.split(sep) -- leftmost, non-overlapping occurrences
RECURSIVE Split(_, _)
Split(s, sep) ==
    LET i == FirstIdx(s, sep) IN
    IF i = 0 THEN <<s>>
    ELSE <<SubSeq(s, 1, i - 1)>> \o Split(SubSeq(s, i + Len(sep), Len(s)), sep)

\* Python truthiness of an optional text: None and '' are falsy
BadTruthy(t) == t # None
Truthy(t) == t # None /\ t # <<>>

\* --------------------------------------------------- playlist id
SpotifyMarker == <<"playlist", "/">>
AppleMarker   == <<"/", "playlist", "/">>

SpotifyExtractId(playlist_url) ==
    IF Contains(playlist_url, SpotifyMarker)
    THEN Split(Last(Split(playlist_url, SpotifyMarker)), <<"?">>)[1]
    ELSE None

AppleExtractId(playlist_url) ==
    IF Contains(playlist_url, AppleMarker)
    THEN Last(Split(Last(Split(playlist_url, AppleMarker)), <<"/">>))
    ELSE None

extract_playlist_id(p, playlist_url) ==
    IF p = "spotify" THEN SpotifyExtractId(playlist_url)
    ELSE AppleExtractId(playlist_url)

\* ------------------------------------------------------ the catalog
\* What the API serves for one playlist entry.  track: the embedded track of
\* a Spotify item ("track", another type, the key present with a null value,
\* the key absent); art: an artwork URL is present; dur: duration in ms;
\* artist, album: primary artist and album name; nested: the nested fields
\* (Spotify album, artists, images, external_urls, added_by; Apple Music
\* attributes, previews, artwork) are present, missing (keys absent), null
\* (keys present with a null value) or empty (lists without elements).
KTrackArt   == [track |-> "track",   art |-> TRUE,  dur |-> 1,
                artist |-> <<"a">>, album |-> <<"a">>, nested |-> "present"]
KTrackNoArt == [track |-> "track",   art |-> FALSE, dur |-> 2,
                artist |-> <<"b">>, album |-> <<"a">>, nested |-> "present"]
KTrackNoDur == [track |-> "track",   art |-> TRUE,  dur |-> NoDur,
                artist |-> <<"a">>, album |-> <<"b">>, nested |-> "present"]
KEpisode    == [track |-> "episode", art |-> TRUE,  dur |-> 1,
                artist |-> <<"a">>, album |-> <<"a">>, nested |-> "present"]
KNull       == [track |-> "null",    art |-> FALSE, dur |-> NoDur,
                artist |-> <<"a">>, album |-> <<"a">>, nested |-> "present"]
KAbsent     == [track |-> "absent",  art |-> FALSE, dur |-> NoDur,
                artist |-> <<"a">>, album |-> <<"a">>, nested |-> "present"]
ItemKinds   == {KTrackArt, KTrackNoArt, KTrackNoDur, KEpisode, KNull, KAbsent}
Filler      == KTrackNoArt

\* tracks whose nested fields are missing, null or empty
KFieldsMissing == [KTrackNoArt EXCEPT !.nested = "missing"]
KFieldsNull    == [KTrackNoArt EXCEPT !.nested = "null"]
KFieldsEmpty   == [KTrackNoArt EXCEPT !.nested = "empty"]
FieldKinds     == {KTrackArt, KFieldsMissing, KFieldsNull, KFieldsEmpty}

SeqsUpTo(S, n) == UNION {[1..k -> S] : k \in 0..n}

SmallPlaylists == SeqsUpTo(ItemKinds, MaxSmall)
RerunPlaylists == SeqsUpTo(ItemKinds, MaxRerun)
FieldPlaylists == SeqsUpTo(FieldKinds, MaxSmall)
PagePats       == SeqsUpTo(ItemKinds, 1)
PageTotals     == {k * PageLimit + r : k \in 0..MaxPages, r \in {0, 1}}

Sym == {"/", "?", "playlist", "a", "b"}
AllUrls == SeqsUpTo(Sym, MaxUrlLen)
MalformedUrls == { <<"/", "a">>, <<"/", "playlist", "/">> }
Urls == { <<"/", "playlist", "/", "a", "?", "b">> } \cup MalformedUrls

VARIABLES
    total, pat,          \* the playlist the API serves: pat, then Filler up to total
    clock,               \* wall clock, in seconds
    images, data,        \* playlist_images/ and playlist_data/: name -> file
    platform,            \* the indexer constructed last
    tokenReqs,           \* token requests issued by that indexer
    access_token,        \* self.access_token of a Spotify indexer
    pc,                  \* position of the program
    runs,                \* calls of index_playlist so far
    url, playlist_id,    \* index_playlist: argument and extracted id
    requests,            \* HTTP requests issued by the current call, in order
    offset, all_tracks,  \* get_playlist_tracks: params['offset'], all_tracks
    tracks_data, index,  \* index_playlist: the raw list and the loop position
    processed_tracks,
    summary,
    result, raised,      \* return value of the call; exception that left it
    downloads,           \* every call of download_artwork so far, in order
    named                \* SpecNames: the artwork file names built so far

server == <<total, pat>>
disk   == <<images, data>>
locals == <<offset, all_tracks, tracks_data, index, processed_tracks, summary>>
auth   == <<tokenReqs, access_token>>
vars   == <<total, pat, clock, images, data, platform, auth, pc, runs, url,
           playlist_id, requests, offset, all_tracks, tracks_data, index,
           processed_tracks, summary, result, raised, downloads, named>>

Item(i) == IF i <= Len(pat) THEN pat[i] ELSE Filler

Min(a, b) == IF a <= b THEN a ELSE b
Range(a, b) == [k \in 1..(IF b >= a THEN b - a + 1 ELSE 0) |-> a + k - 1]

\* GET /playlists/{id}/tracks?limit=..&offset=..  answered honestly
ServerPage(off, limit) ==
    [items |-> Range(off + 1, Min(off + limit, total)),
     next  |-> off + limit < total]

\* GET /catalog/{storefront}/playlists/{id}?include=tracks&limit=300
AppleEmbedded == Range(1, Min(total, AppleLimit))

\* ------------------------------------------------ artwork file names
DigitSym == <<"0", "1", "2", "3", "4", "5", "6", "7", "8", "9">>

RECURSIVE Digits(_)
Digits(n) ==
    IF n < 10 THEN <<DigitSym[n + 1]>>
    ELSE Digits(n \div 10) \o <<DigitSym[(n % 10) + 1]>>

\* Python: f"{n:0{w}d}"
BadPad(n, w) == [k \in 1..w |-> "0"]
Pad(n, w) ==
    LET d == Digits(n) IN
    IF Len(d) >= w THEN d ELSE [k \in 1..(w - Len(d)) |-> "0"] \o d

Take(s, n) == SubSeq(s, 1, Min(n, Len(s)))

AlnumChars == {DigitSym[k] : k \in 1..10} \cup {"a", "b", "N", "o", "n", "e"}
SpaceChars == {" ", "\t"}
IsAlnum(c) == c \in AlnumChars
IsSpace(c) == c \in SpaceChars

\* re.sub(r'[^\w\s-]', '', s) keeps word characters, whitespace and hyphens
SpotifyKeeps(c) == IsAlnum(c) \/ c = "_" \/ IsSpace(c) \/ c = "-"
SpotifySep(c)   == IsSpace(c) \/ c = "-"

\* re.sub(r'[-\s]+', '_', s): the first character of every run of hyphens
\* and whitespace becomes an underscore, the rest of the run goes
CollapseSeps(s) ==
    LET marked == [k \in 1..Len(s) |->
                     IF ~SpotifySep(s[k]) THEN s[k]
                     ELSE IF k > 1 /\ SpotifySep(s[k - 1]) THEN "<drop>"
                     ELSE "_"]
    IN  SelectSeq(marked, LAMBDA c : c # "<drop>")

SpotifySafeName(raw) ==
    Take(CollapseSeps(SelectSeq(raw, SpotifyKeeps)), NameLimit)

\* c.isalnum() or c in (' ', '-', '_')
BadAppleKeeps(c) == TRUE
AppleKeeps(c) == IsAlnum(c) \/ c \in {" ", "-", "_"}

\* str.rstrip(): trailing whitespace goes
RStrip(s) ==
    LET kept == {k \in 1..Len(s) : \E j \in k..Len(s) : ~IsSpace(s[j])}
    IN  SubSeq(s, 1, Cardinality(kept))

ReplaceSpaces(s) == [k \in 1..Len(s) |-> IF s[k] = " " THEN "_" ELSE s[k]]

AppleSafeName(raw) ==
    Take(ReplaceSpaces(RStrip(SelectSeq(raw, AppleKeeps))), NameLimit)

\* artist and title of a catalog entry
ItemArtist(k) == k.artist
ItemName(k)   == <<"b">>

\* str(x) inside an f-string: None is rendered as the word None
Str(t) == IF t = None THEN <<"N", "o", "n", "e">> ELSE t

\* f"{track_index:03d}_{artist}_{name}", made safe, plus ".jpg"
SafeFilename(p, track_index, artist, name) ==
    LET raw == Pad(track_index, 3) \o <<"_">> \o Str(artist) \o <<"_">> \o Str(name)
    IN  (IF p = "spotify" THEN SpotifySafeName(raw) ELSE AppleSafeName(raw))
        \o <<".jpg">>

ArtworkFilename(p, track_index, k) ==
    SafeFilename(p, track_index, ItemArtist(k), ItemName(k))

\* str(self.images_dir / filename)
ImagePath(filename) == <<"playlist_images", "/">> \o filename

\* f"spotify_playlist_{id}_{stamp}.json" and f"playlist_{id}_{stamp}.json";
\* the stamp renders the second of the clock at fixed width
Stamp(t) == Pad(t, 2)
JsonFilename(p, id, t) ==
    (IF p = "spotify" THEN <<"spotify_playlist_">> ELSE <<"playlist_">>)
    \o id \o <<"_">> \o Stamp(t) \o <<".json">>

\* ------------------------------------------------------- the program
NoSummary ==
    [total_tracks |-> 0, total_duration_ms |-> 0, duration_type |-> "none",
     unique_artists |-> 0, unique_albums |-> 0]

Request(kind, off, file, outcome) ==
    [kind |-> kind, offset |-> off, file |-> file, outcome |-> outcome]

ClearLocals ==
    /\ offset' = 0
    /\ all_tracks' = <<>>
    /\ tracks_data' = <<>>
    /\ index' = 0
    /\ processed_tracks' = <<>>
    /\ summary' = NoSummary

\* an exception leaves index_playlist: nothing is returned
Raise(e) ==
    /\ pc' = "done"
    /\ raised' = e

TokenOutcomes == {"ok", "http_error", "no_access_token"}
HttpOutcomes  == {"ok", "http_error"}
ArtOutcomes   == {"ok", "http_error", "os_error"}

\* get_access_token re-raises a RequestException and lets the KeyError of a
\* body without access_token through: no indexer object comes into being
BadTokenNextPc(outcome) == "ready"
TokenNextPc(outcome) == IF outcome = "ok" THEN "ready" ELSE "idle"

\* SpotifyPlaylistIndexer(client_id, client_secret): the constructor creates
\* the directories and requests the token; it raises when the request fails
\* or the body holds no access_token
ConstructSpotify ==
    /\ pc \in {"idle", "done"}
    /\ \E outcome \in TokenOutcomes :
          /\ platform' = "spotify"
          /\ tokenReqs' = 1
          /\ access_token' = IF outcome = "ok" THEN <<"token">> ELSE None
          /\ pc' = TokenNextPc(outcome)
          /\ raised' = IF outcome = "ok" THEN ""
                       ELSE IF outcome = "http_error" THEN "RequestException"
                       ELSE "KeyError"
    /\ result' = None
    /\ requests' = <<>>
    /\ url' = <<>>
    /\ playlist_id' = None
    /\ ClearLocals
    /\ UNCHANGED <<named, server, clock, disk, runs, downloads>>

\* AppleMusicPlaylistIndexer(developer_token): no request
ConstructApple ==
    /\ pc \in {"idle", "done"}
    /\ platform' = "apple"
    /\ tokenReqs' = 0
    /\ access_token' = None
    /\ pc' = "ready"
    /\ raised' = ""
    /\ result' = None
    /\ requests' = <<>>
    /\ url' = <<>>
    /\ playlist_id' = None
    /\ ClearLocals
    /\ UNCHANGED <<named, server, clock, disk, runs, downloads>>

\* an indexer exists and is not inside a call
CanStart ==
    /\ pc \in {"ready", "done"}
    /\ platform \in {"spotify", "apple"}
    /\ runs < MaxRuns

\* index_playlist(playlist_url), up to the first request
StartIndex(u) ==
    /\ CanStart
    /\ runs' = runs + 1
    /\ url' = u
    /\ playlist_id' = extract_playlist_id(platform, u)
    /\ requests' = <<>>
    /\ result' = None
    /\ raised' = ""
    /\ ClearLocals
    /\ pc' = IF Truthy(playlist_id') THEN "details" ELSE "done"
    /\ UNCHANGED <<named, server, clock, disk, platform, auth, downloads>>

IndexPlaylist == CanStart /\ \E u \in Urls : StartIndex(u)

\* if not playlist_data: return None; otherwise Spotify lists the tracks and
\* Apple Music reads them from the response
BadDetailsNextPc(outcome, p) == IF p = "spotify" THEN "tracks" ELSE "process"
DetailsNextPc(outcome, p) ==
    IF outcome # "ok" THEN "done"
    ELSE IF p = "spotify" THEN "tracks" ELSE "process"

\* get_playlist_details and the check of its result
GetDetails ==
    /\ pc = "details"
    /\ \E outcome \in HttpOutcomes :
          /\ requests' = Append(requests, Request("details", 0 - 1, playlist_id, outcome))
          /\ pc' = DetailsNextPc(outcome, platform)
          /\ tracks_data' = IF pc' = "process" THEN AppleEmbedded ELSE tracks_data
    /\ UNCHANGED <<named, server, clock, disk, platform, auth, runs, url, playlist_id,
                   offset, all_tracks, index, processed_tracks, summary, result,
                   raised, downloads>>

\* except RequestException: log and break -- the loop is left
BadAfterFailedPage == "tracks"
AfterFailedPage == "process"

\* one iteration of the while loop of get_playlist_tracks; on break the list
\* is returned into tracks_data
FetchPage ==
    /\ pc = "tracks"
    /\ \E outcome \in HttpOutcomes :
          LET page == ServerPage(offset, PageLimit) IN
          /\ requests' = Append(requests, Request("tracks", offset, playlist_id, outcome))
          /\ IF outcome # "ok"
             THEN /\ pc' = AfterFailedPage
                  /\ tracks_data' = all_tracks
                  /\ UNCHANGED <<all_tracks, offset>>
             ELSE IF page.items = <<>>
             THEN /\ pc' = "process"
                  /\ tracks_data' = all_tracks
                  /\ UNCHANGED <<all_tracks, offset>>
             ELSE IF ~page.next
             THEN /\ pc' = "process"
                  /\ all_tracks' = all_tracks \o page.items
                  /\ tracks_data' = all_tracks'
                  /\ UNCHANGED <<offset>>
             ELSE /\ pc' = "tracks"
                  /\ all_tracks' = all_tracks \o page.items
                  /\ offset' = offset + OffsetStep
                  /\ UNCHANGED <<tracks_data>>
    /\ UNCHANGED <<named, server, clock, disk, platform, auth, runs, url,
                   playlist_id, index, processed_tracks, summary, result, raised,
                   downloads>>

\* artist_name and album_name of the record: the value served, else the
\* default -- Spotify 'Unknown Artist' / 'Unknown Album', Apple Music None
RecordArtist(p, k) ==
    IF k.nested = "present" THEN k.artist
    ELSE IF p = "spotify" THEN <<"Unknown Artist">> ELSE None
RecordAlbum(p, k) ==
    IF k.nested = "present" THEN k.album
    ELSE IF p = "spotify" THEN <<"Unknown Album">> ELSE None
RecordDuration(p, k) ==
    IF p = "apple" /\ k.nested # "present" THEN NoDur ELSE k.dur

\* process_track's record for a kept track
TrackInfo(i, pos, path) ==
    [index |-> i, item |-> pos,
     duration_ms |-> RecordDuration(platform, Item(pos)),
     artist_name |-> RecordArtist(platform, Item(pos)),
     album_name  |-> RecordAlbum(platform, Item(pos)),
     artwork_local_path |-> path]

WriteImage(filename) ==
    (filename :> (IF filename \in DOMAIN images THEN images[filename] + 1 ELSE 1))
    @@ images

\* what one call of download_artwork does: a request or none, a write or
\* none, the path returned, or an exception other than RequestException
Fetched(outcome) ==
    [fetched |-> TRUE, wrote |-> outcome = "ok", raises |-> outcome = "os_error",
     path |-> None]

\* if file_path.exists(): return str(file_path)
BadSpotifyReuses(filename) == FALSE
SpotifyReuses(filename) == filename \in DOMAIN images

SpotifyDownload(filename, outcome) ==
    IF SpotifyReuses(filename)
    THEN [fetched |-> FALSE, wrote |-> FALSE, raises |-> FALSE,
          path |-> ImagePath(filename)]
    ELSE IF outcome = "ok"
    THEN [Fetched(outcome) EXCEPT !.path = ImagePath(filename)]
    ELSE Fetched(outcome)

BadAppleDownload(filename, outcome) ==
    [Fetched(outcome) EXCEPT !.path = ImagePath(filename)]
AppleDownload(filename, outcome) ==
    IF outcome = "ok"
    THEN [Fetched(outcome) EXCEPT !.path = ImagePath(filename)]
    ELSE Fetched(outcome)

\* the effect of a call of download_artwork by process_track on track i
Downloading(p, i, pos, filename, outcome, d) ==
    /\ requests' = IF d.fetched
                   THEN Append(requests, Request("artwork", 0 - 1, filename, outcome))
                   ELSE requests
    /\ images' = IF d.wrote THEN WriteImage(filename) ELSE images
    /\ downloads' = Append(downloads,
                           [platform |-> p, run |-> runs, file |-> filename,
                            fetched |-> d.fetched, wrote |-> d.wrote,
                            path |-> d.path])
    /\ IF d.raises
       THEN /\ Raise("OSError")
            /\ UNCHANGED <<index, processed_tracks>>
       ELSE /\ index' = i
            /\ processed_tracks' = Append(processed_tracks, TrackInfo(i, pos, d.path))
            /\ UNCHANGED <<pc, raised>>

\* if not track_data or track_data.get('type') != 'track': return None
BadSpotifyDrops(k) == k.track \notin {"track", "episode"}
SpotifyDrops(k) == k.track # "track"

\* The exception of process_track on the nested fields of a track, "" when
\* there is none.  Spotify: the comprehension over artists (null) raises
\* TypeError.  Apple Music: attributes (null) has no get, and
\* get('previews', [{}])[0] on an empty list raises IndexError.
NestedError(p, k) ==
    IF k.nested = "null"
    THEN (IF p = "spotify" THEN "TypeError" ELSE "AttributeError")
    ELSE IF k.nested = "empty" /\ p = "apple" THEN "IndexError"
    ELSE ""

\* Spotify: one iteration of the for loop of index_playlist, with
\* process_track and download_artwork
SpotifyTrack(i, pos, outcome) ==
    LET k  == Item(pos)
        fn == ArtworkFilename("spotify", i, k)
    IN
    IF k.track = "null"
    THEN \* track_item.get('track', {}) is None: None.get('name', ...) raises
         /\ Raise("AttributeError")
         /\ UNCHANGED <<index, processed_tracks, images, requests, downloads>>
    ELSE IF SpotifyDrops(k)
    THEN /\ index' = i
         /\ UNCHANGED <<pc, raised, processed_tracks, images, requests, downloads>>
    ELSE IF NestedError("spotify", k) # ""
    THEN /\ Raise(NestedError("spotify", k))
         /\ UNCHANGED <<index, processed_tracks, images, requests, downloads>>
    ELSE IF ~k.art
    THEN /\ index' = i
         /\ processed_tracks' = Append(processed_tracks, TrackInfo(i, pos, None))
         /\ UNCHANGED <<pc, raised, images, requests, downloads>>
    ELSE Downloading("spotify", i, pos, fn, outcome, SpotifyDownload(fn, outcome))

\* Apple Music: every item is kept, the artwork is fetched unconditionally
AppleTrack(i, pos, outcome) ==
    LET k  == Item(pos)
        fn == ArtworkFilename("apple", i, k)
    IN
    IF NestedError("apple", k) # ""
    THEN /\ Raise(NestedError("apple", k))
         /\ UNCHANGED <<index, processed_tracks, images, requests, downloads>>
    ELSE IF ~k.art
    THEN /\ index' = i
         /\ processed_tracks' = Append(processed_tracks, TrackInfo(i, pos, None))
         /\ UNCHANGED <<pc, raised, images, requests, downloads>>
    ELSE Downloading("apple", i, pos, fn, outcome, AppleDownload(fn, outcome))

ProcessTrack ==
    /\ pc = "process"
    /\ index < Len(tracks_data)
    /\ \E outcome \in ArtOutcomes :
          IF platform = "spotify"
          THEN SpotifyTrack(index + 1, tracks_data[index + 1], outcome)
          ELSE AppleTrack(index + 1, tracks_data[index + 1], outcome)
    /\ UNCHANGED <<named, server, clock, data, platform, auth, runs, url, playlist_id,
                   offset, all_tracks, tracks_data, summary, result>>

\* df['duration_ms'].sum(): missing values are skipped
RECURSIVE SumDurations(_)
SumDurations(tracks) ==
    IF tracks = <<>> THEN 0
    ELSE (IF Head(tracks).duration_ms = NoDur THEN 0 ELSE Head(tracks).duration_ms)
         + SumDurations(Tail(tracks))

\* The type of summary.total_duration_ms.  Spotify converts with int(...).
\* Apple Music stores the pandas scalar: numpy.int64 for a column of integers,
\* numpy.float64 (a float) for integers with gaps, a plain 0 for no value.
DurationType(p, tracks) ==
    IF p = "spotify" THEN "int"
    ELSE IF \A k \in 1..Len(tracks) : tracks[k].duration_ms # NoDur THEN "int64"
    ELSE IF \E k \in 1..Len(tracks) : tracks[k].duration_ms # NoDur THEN "float64"
    ELSE "int"

\* Series.nunique(): the number of distinct values, None not counted
NUnique(values) == Cardinality(values \ {None})

Summarize(p, tracks) ==
    [total_tracks |-> Len(tracks),
     total_duration_ms |-> SumDurations(tracks),
     duration_type |-> DurationType(p, tracks),
     unique_artists |-> NUnique({tracks[k].artist_name : k \in 1..Len(tracks)}),
     unique_albums  |-> NUnique({tracks[k].album_name : k \in 1..Len(tracks)})]

\* json.dump rejects numpy.int64
Serializable(sm) == sm.duration_type # "int64"

\* pd.DataFrame(processed_tracks) and the summary; a frame built from an empty
\* list has no columns, so df['duration_ms'] raises KeyError
Aggregate ==
    /\ pc = "process"
    /\ index = Len(tracks_data)
    /\ IF processed_tracks = <<>>
       THEN /\ Raise("KeyError")
            /\ UNCHANGED summary
       ELSE /\ summary' = Summarize(platform, processed_tracks)
            /\ pc' = "write"
            /\ UNCHANGED raised
    /\ UNCHANGED <<named, server, clock, disk, platform, auth, runs, url, playlist_id,
                   requests, offset, all_tracks, tracks_data, index,
                   processed_tracks, result, downloads>>

DataPath(filename) == <<"playlist_data", "/">> \o filename

Snapshot(complete, filename) ==
    [platform |-> platform,
     run      |-> runs,
     tracks   |-> processed_tracks,
     summary  |-> IF complete THEN summary ELSE NoSummary,
     complete |-> complete,
     writes   |-> IF filename \in DOMAIN data THEN data[filename].writes + 1 ELSE 1]

\* open(json_path, 'w') and json.dump(final_data, f, indent=2): the encoder
\* streams metadata and tracks into the file before it reaches the summary.
\* pd.Timestamp.now() reads the clock, which has not gone back since it was
\* read last
WriteSnapshot ==
    /\ pc = "write"
    /\ \E now \in clock..MaxClock :
          LET fn == JsonFilename(platform, playlist_id, now) IN
          /\ clock' = now
          /\ IF Serializable(summary)
             THEN /\ data' = (fn :> Snapshot(TRUE, fn)) @@ data
                  /\ result' = DataPath(fn)
                  /\ pc' = "done"
                  /\ UNCHANGED raised
             ELSE /\ data' = (fn :> Snapshot(FALSE, fn)) @@ data
                  /\ Raise("TypeError")
                  /\ UNCHANGED result
    /\ UNCHANGED <<named, server, images, platform, auth, runs, url,
                   playlist_id, requests, locals, downloads>>

InitProgram ==
    /\ clock = 0
    /\ images = <<>>
    /\ data = <<>>
    /\ platform = "none"
    /\ tokenReqs = 0
    /\ access_token = None
    /\ pc = "idle"
    /\ url = <<>>
    /\ playlist_id = None
    /\ requests = <<>>
    /\ offset = 0
    /\ all_tracks = <<>>
    /\ tracks_data = <<>>
    /\ index = 0
    /\ processed_tracks = <<>>
    /\ summary = NoSummary
    /\ result = None
    /\ raised = ""
    /\ downloads = <<>>
    /\ named = <<>>

Next ==
    \/ ConstructSpotify
    \/ ConstructApple
    \/ IndexPlaylist
    \/ GetDetails
    \/ FetchPage
    \/ ProcessTrack
    \/ Aggregate
    \/ WriteSnapshot

\* one call of index_playlist on a short playlist of any shape
Init ==
    /\ pat \in SmallPlaylists
    /\ total = Len(pat)
    /\ runs = MaxRuns - 1
    /\ InitProgram

Spec == Init /\ [][Next]_vars

\* up to MaxRuns calls, by indexers of either platform, on one disk
InitRerun ==
    /\ pat \in RerunPlaylists
    /\ total = Len(pat)
    /\ runs = 0
    /\ InitProgram

SpecRerun == InitRerun /\ [][Next]_vars

\* one call on a playlist of zero to MaxPages full pages (and one item more)
InitPages ==
    /\ pat \in PagePats
    /\ total \in PageTotals
    /\ runs = MaxRuns - 1
    /\ InitProgram

SpecPages == InitPages /\ [][Next]_vars

\* the same, with every request of the pagination loop answered in the end
SpecPagesLive == InitPages /\ [][Next]_vars /\ WF_vars(FetchPage)

\* the first step of index_playlist on every URL up to MaxUrlLen symbols
IndexAnyUrl == CanStart /\ \E u \in AllUrls : StartIndex(u)

NextExtract ==
    \/ ConstructSpotify
    \/ ConstructApple
    \/ IndexAnyUrl

InitExtract ==
    /\ pat = <<>>
    /\ total = 0
    /\ runs = MaxRuns - 1
    /\ InitProgram

SpecExtract == InitExtract /\ [][NextExtract]_vars

\* one call on a short playlist whose tracks have nested fields missing, null
\* or empty
InitFields ==
    /\ pat \in FieldPlaylists
    /\ total = Len(pat)
    /\ runs = MaxRuns - 1
    /\ InitProgram

SpecFields == InitFields /\ [][Next]_vars

\* artists and titles: up to MaxNameLen symbols of every class after a padding
\* that puts them before, across and behind the cut at NameLimit
NameSym == {"a", " ", "\t", "-", "_", "/"}
PadLens == {0, NameLimit - 7, NameLimit}
TrackNames ==
    {[k \in 1..n |-> "b"] \o t : n \in PadLens, t \in SeqsUpTo(NameSym, MaxNameLen)}
ArtistNames == {<<"a">>, None}
TrackIndexes == {1, 100, 1000}

\* process_track builds the file name of one track of the run; enumerate
\* gives every track of a run another index
NameTrack ==
    /\ Len(named) < 2
    /\ \E p \in {"spotify", "apple"}, i \in TrackIndexes,
          a \in ArtistNames, t \in TrackNames :
          /\ \A n \in 1..Len(named) : named[n].platform = p /\ named[n].index # i
          /\ named' = Append(named, [platform |-> p, index |-> i, artist |-> a,
                                     name |-> t, file |-> SafeFilename(p, i, a, t)])
    /\ UNCHANGED <<server, clock, disk, platform, auth, pc, runs, url,
                   playlist_id, requests, locals, result, raised, downloads>>

InitNames ==
    /\ pat = <<>>
    /\ total = 0
    /\ runs = MaxRuns - 1
    /\ InitProgram

SpecNames == InitNames /\ [][NameTrack]_vars

\* ------------------------------------------------- reading the logs
Failed(kind) ==
    \E i \in 1..Len(requests) :
        requests[i].kind = kind /\ requests[i].outcome # "ok"

DetailsOk ==
    \E i \in 1..Len(requests) :
        requests[i].kind = "details" /\ requests[i].outcome = "ok"

\* the snapshot files written by the current call
SnapshotsOfRun == {f \in DOMAIN data : data[f].run = runs}

\* the file behind a path returned by index_playlist
SnapshotAt(path) == data[SubSeq(path, 3, Len(path))]

PageRequests == SelectSeq(requests, LAMBDA r : r.kind = "tracks")
PageOffsets  == [k \in 1..Len(PageRequests) |-> PageRequests[k].offset]

ItemsOf(tracks) == [k \in 1..Len(tracks) |-> tracks[k].item]
IsTrackItem(pos) == Item(pos).track = "track"

\* a call was made and its first step is over
Called == pc \in {"details", "tracks", "process", "write", "done"}

\* ----------------------------------------------------------- claims

\* C1: if a track-list page request fails during a Spotify run, the run is
\* aborted: index_playlist returns no path and writes no snapshot, whether
\* the failure hits the first page or a later one.  (An exception leaving
\* the call is counted as a failure result here.)
C1_PageFailureAborts ==
    (platform = "spotify" /\ Failed("tracks"))
        => (result = None /\ SnapshotsOfRun = {})

\* C2: if the playlist-metadata GET fails, index_playlist on either platform
\* returns null, issues no track-list and no artwork request afterwards, and
\* writes no snapshot.
C2_DetailsFailureAborts ==
    Failed("details")
        => /\ pc = "done"
           /\ result = None
           /\ raised = ""
           /\ Len(requests) = 1
           /\ SnapshotsOfRun = {}
           /\ \A i \in 1..Len(downloads) : downloads[i].run # runs

C2_Witness ==
    /\ Failed("details")
    /\ platform = "spotify"
    /\ runs = MaxRuns
    /\ DOMAIN data # {}

AfterMarker(u) == SubSeq(u, FirstIdx(u, AppleMarker) + Len(AppleMarker), Len(u))
ClaimedId(u)   == Split(AfterMarker(u), <<"?">>)[1]
WellFormed(u)  ==
    /\ Contains(u, AppleMarker)
    /\ ClaimedId(u) # <<>>
    /\ Last(u) # "?"
    /\ \A k \in 1..Len(ClaimedId(u)) : ClaimedId(u)[k] # "/"

\* C4: for a URL <prefix>/playlist/<id> or <prefix>/playlist/<id>?<query> with
\* <id> non-empty and free of '/' and '?', extract_playlist_id of both
\* indexers returns exactly <id>.
C4_ExtractReturnsId ==
    (Called /\ WellFormed(url)) => playlist_id = ClaimedId(url)

\* C5: for a URL that does not contain the segment '/playlist/',
\* extract_playlist_id returns no id on both platforms and index_playlist
\* returns null.
C5_NoMarkerReturnsNull ==
    (Called /\ ~Contains(url, AppleMarker))
        => (~Truthy(playlist_id) /\ pc = "done" /\ result = None)

\* C6: against an API that serves N full pages with a next marker and a final
\* page without one, get_playlist_tracks requests the offsets 0, 100, ...,
\* 100*N once each, in increasing order, and returns the pages concatenated:
\* every item once, in order.
ExpectedPages == IF total = 0 THEN 1 ELSE ((total - 1) \div PageLimit) + 1
C6_Pagination ==
    (platform = "spotify" /\ pc \in {"process", "write", "done"}
        /\ DetailsOk /\ ~Failed("tracks"))
        => /\ tracks_data = Range(1, total)
           /\ PageOffsets = [k \in 1..ExpectedPages |-> (k - 1) * PageLimit]

C6_Witness ==
    /\ platform = "spotify"
    /\ pc = "process"
    /\ ~Failed("tracks")
    /\ Len(PageRequests) = MaxPages + 1
    /\ Len(tracks_data) = MaxPages * PageLimit + 1

\* C7: the tracks produced by the Spotify index_playlist are exactly the raw
\* items whose embedded track has type 'track', in the order of the raw list:
\* at every point of the loop for the items handled so far, and in the
\* snapshot for the whole list.
C7_DropsExactlyNonTracks ==
    platform = "spotify"
        => /\ ItemsOf(processed_tracks)
                = SelectSeq(SubSeq(tracks_data, 1, index), IsTrackItem)
           /\ (pc = "done" /\ result # None)
                => ItemsOf(SnapshotAt(result).tracks)
                      = SelectSeq(tracks_data, IsTrackItem)

C7_Witness ==
    /\ platform = "spotify"
    /\ pc = "done"
    /\ result # None
    /\ Len(tracks_data) = 3
    /\ ~IsTrackItem(tracks_data[2])
    /\ ItemsOf(SnapshotAt(result).tracks) = <<1, 3>>

\* two calls of the Spotify download_artwork with the same file name
SpotifyPairs ==
    {<<i, j>> \in (1..Len(downloads)) \X (1..Len(downloads)) :
        /\ i < j
        /\ downloads[i].platform = "spotify"
        /\ downloads[j].platform = "spotify"
        /\ downloads[i].file = downloads[j].file}

\* C8 as claimed: two calls of the Spotify download_artwork with the same
\* artwork URL and file name perform exactly one fetch: the first fetches,
\* the second issues no request, does not rewrite the file and returns the
\* path the first returned.
C8_ExactlyOneFetch ==
    \A q \in SpotifyPairs :
        /\ downloads[q[1]].fetched
        /\ ~downloads[q[2]].fetched
        /\ ~downloads[q[2]].wrote
        /\ downloads[q[2]].path = downloads[q[1]].path

\* C8 as amended: once a call of the Spotify download_artwork has returned a
\* path, a later call with the same file name issues no request, does not
\* rewrite the file and returns the same path.  (After a failed first call
\* the second call fetches again.)
C8_ReusesDownloadedFile ==
    \A q \in SpotifyPairs :
        downloads[q[1]].path # None
            => /\ ~downloads[q[2]].fetched
               /\ ~downloads[q[2]].wrote
               /\ downloads[q[2]].path = downloads[q[1]].path

C8_Witness ==
    \E q \in SpotifyPairs :
        /\ downloads[q[1]].fetched
        /\ downloads[q[1]].path # None
        /\ downloads[q[2]].path = downloads[q[1]].path
        /\ images[downloads[q[1]].file] = 1

\* C9: a failed artwork download -- the fetch or the saving of the image --
\* is never fatal: the call goes on, and when it ends it has written a
\* complete snapshot with every normalised track.
C9_ArtworkFailureNotFatal ==
    Failed("artwork")
        => /\ raised = ""
           /\ pc = "done"
                => /\ result # None
                   /\ SnapshotAt(result).complete
                   /\ SnapshotAt(result).tracks = processed_tracks
                   /\ index = Len(tracks_data)

\* the loop of index_playlist ran to its end and kept no track
EmptyRun ==
    /\ pc = "done"
    /\ DetailsOk
    /\ index = Len(tracks_data)
    /\ processed_tracks = <<>>

\* C10: when the normalised track list is empty, index_playlist does not
\* raise: it writes a snapshot with an empty tracks list and total_tracks 0.
C10_EmptyListTolerated ==
    EmptyRun
        => /\ raised = ""
           /\ result # None
           /\ SnapshotAt(result).tracks = <<>>
           /\ SnapshotAt(result).summary.total_tracks = 0

\* C11: each successful run writes exactly one snapshot file, at a path
\* that differs from the path of every snapshot written by an earlier run,
\* also an earlier run for the same playlist id: the step that writes the
\* snapshot of a successful run adds one file to playlist_data and leaves
\* every snapshot written before as it was.
C11_NeverOverwrites ==
    [][(pc = "write" /\ result' # None)
          => /\ Cardinality(DOMAIN data') = Cardinality(DOMAIN data) + 1
             /\ \A f \in DOMAIN data :
                   data[f].complete => (f \in DOMAIN data' /\ data'[f] = data[f])]_vars

\* C12: the snapshot file of a call is created only after every track of the
\* fetched list has been processed and the summary has been computed, and a
\* call that fails before it returns leaves no partial snapshot file behind.
C12_NoPartialSnapshot ==
    /\ SnapshotsOfRun # {}
          => /\ index = Len(tracks_data)
             /\ summary = Summarize(platform, processed_tracks)
    /\ \A f \in SnapshotsOfRun : data[f].complete
    /\ raised # "" => SnapshotsOfRun = {}

\* the reference aggregates of a track list, computed from the records
Known(tracks) ==
    \A k \in 1..Len(tracks) :
        /\ tracks[k].duration_ms # NoDur
        /\ tracks[k].artist_name # None
        /\ tracks[k].album_name # None

RECURSIVE RefDuration(_, _)
RefDuration(tracks, n) ==
    IF n = 0 THEN 0 ELSE tracks[n].duration_ms + RefDuration(tracks, n - 1)

SummaryMatches(snap) ==
    /\ snap.complete
    /\ snap.summary.total_tracks = Len(snap.tracks)
    /\ snap.summary.total_duration_ms = RefDuration(snap.tracks, Len(snap.tracks))
    /\ snap.summary.unique_artists
          = Cardinality({snap.tracks[k].artist_name : k \in 1..Len(snap.tracks)})
    /\ snap.summary.unique_albums
          = Cardinality({snap.tracks[k].album_name : k \in 1..Len(snap.tracks)})

\* C13: for a track list with known durations, primary artists and albums,
\* the summary of the snapshot file written by the call matches the reference
\* aggregates exactly: number of tracks, sum of the durations, number of
\* different artist_name values, number of different album_name values.
C13_SummaryMatches ==
    \A f \in SnapshotsOfRun : Known(data[f].tracks) => SummaryMatches(data[f])

\* a file name without its extension; the extension is one symbol of four
\* characters
Stem(f) == SubSeq(f, 1, Len(f) - 1)
AllowedInName(c) == c \in AlnumChars \cup {" ", "-", "_"}

\* C14: for every track index, artist and title, the artwork file name built
\* by process_track on either platform ends in '.jpg', is at most 104
\* characters long, and holds before the extension only alphanumeric
\* characters, spaces, hyphens and underscores.
C14_SafeFilename ==
    \A n \in 1..Len(named) :
        LET f == named[n].file IN
        /\ Last(f) = ".jpg"
        /\ Len(Stem(f)) + 4 <= 104
        /\ \A k \in 1..Len(Stem(f)) : AllowedInName(Stem(f)[k])

C14_Witness ==
    \E n \in 1..Len(named) :
        /\ named[n].platform = "apple"
        /\ Len(named[n].name) > 100
        /\ Last(named[n].name) = "/"
        /\ Len(Stem(named[n].file)) = 100

\* C15: within one run any two different tracks are given different artwork
\* file names, also when the names are cut at 100 characters and when the
\* index has four digits, so no track's file is written over another's.
C15_DistinctFilenames ==
    \A m, n \in 1..Len(named) :
        (named[m].platform = named[n].platform /\ named[m].index # named[n].index)
            => named[m].file # named[n].file

C15_Witness ==
    /\ Len(named) = 2
    /\ named[1].index = 100
    /\ named[2].index = 1000
    /\ named[1].artist = named[2].artist
    /\ named[1].name = named[2].name
    /\ Len(named[1].name) > 100
    /\ Len(Stem(named[1].file)) = 100
    /\ Len(Stem(named[2].file)) = 100

\* the loop of index_playlist was left by an exception raised for the item
\* after the last one handled
RaisedInLoop == pc = "done" /\ raised # "" /\ index < Len(tracks_data)
IrregularItems ==
    {k \in 1..Len(processed_tracks) :
        Item(processed_tracks[k].item).nested # "present"}

\* C16: for a raw track whose nested fields are missing, null or empty,
\* process_track does not raise: it returns a record with the corresponding
\* fields null (or the documented default), and the run goes on with the next
\* track.
C16_MissingFieldsAbsorbed ==
    /\ RaisedInLoop => Item(tracks_data[index + 1]).nested = "present"
    /\ \A k \in IrregularItems :
          /\ processed_tracks[k].artwork_local_path = None
          /\ processed_tracks[k].artist_name \in {None, <<"Unknown Artist">>}
          /\ processed_tracks[k].album_name \in {None, <<"Unknown Album">>}

\* the token request of the Spotify indexer constructed last failed
NoToken == platform = "spotify" /\ access_token = None
InsideCall == {"details", "tracks", "process", "write"}

\* C17: a Spotify indexer issues exactly one token request over its lifetime,
\* before any playlist, track-list or artwork request; when that request
\* fails the constructor raises, and no catalog request is issued and no
\* snapshot is written.
C17_TokenOnceAndFirst ==
    /\ [](platform = "spotify" => tokenReqs = 1)
    /\ [](NoToken => (pc = "idle" /\ raised # "" /\ requests = <<>>))
    /\ [][NoToken => (requests' = <<>> /\ data' = data)]_vars
    /\ [][(pc \in InsideCall \/ pc' \in InsideCall \/ runs' # runs)
            => auth' = auth]_vars

C17_Witness ==
    /\ NoToken
    /\ raised = "KeyError"
    /\ runs = 1
    /\ DOMAIN data # {}

\* what a request asks for
Asked(r) == <<r.kind, r.offset, r.file>>

\* C18: no request is retried: within one run the token request, the
\* metadata request, the track-list request of each offset and the artwork
\* fetch of each track are issued at most once each, whether they succeed or
\* fail.
C18_NoRetry ==
    /\ tokenReqs <= 1
    /\ \A i, j \in 1..Len(requests) :
          Asked(requests[i]) = Asked(requests[j]) => i = j

C18_Witness ==
    /\ platform = "spotify"
    /\ pc = "done"
    /\ Failed("tracks")
    /\ Failed("artwork")
    /\ Len(PageRequests) = 2

\* a raw Spotify item whose 'track' value is null or absent
NoneTrack(pos) == Item(pos).track \in {"null", "absent"}

\* C19: the Spotify index_playlist skips a raw item whose 'track' value is
\* null or absent without raising: the item contributes no record, the items
\* after it are still processed, and the snapshot is written with the
\* remaining tracks.
C19_NoneTrackSkipped ==
    platform = "spotify"
        => /\ RaisedInLoop => ~NoneTrack(tracks_data[index + 1])
           /\ \A k \in 1..Len(processed_tracks) :
                 ~NoneTrack(processed_tracks[k].item)

\* a response that ends the pagination loop: a failure, an empty item list,
\* or a null 'next' marker
Stops(r) ==
    \/ r.outcome # "ok"
    \/ ServerPage(r.offset, PageLimit).items = <<>>
    \/ ~ServerPage(r.offset, PageLimit).next

\* C20: the pagination loop of get_playlist_tracks stops at the first
\* response that fails, has an empty item list or has a null 'next' marker,
\* and issues no request after it; against an API that honestly serves a
\* playlist of T items the loop is eventually left.
C20_PaginationStops ==
    /\ [](platform = "spotify"
            => \A k \in 1..Len(PageRequests) :
                  Stops(PageRequests[k]) <=> (k = Len(PageRequests) /\ pc # "tracks"))
    /\ (pc = "tracks") ~> (pc # "tracks")

C20_Witness ==
    /\ platform = "spotify"
    /\ pc = "process"
    /\ total = 0
    /\ Len(PageRequests) = 1
    /\ PageRequests[1].outcome = "ok"

\* the artwork file name process_track builds for a record of a snapshot
FileOfRecord(snap, t) == ArtworkFilename(snap.platform, t.index, Item(t.item))

\* download_artwork was called for the record's file during the snapshot's run
FetchedFor(snap, t) ==
    \E d \in 1..Len(downloads) :
        /\ downloads[d].run = snap.run
        /\ downloads[d].file = FileOfRecord(snap, t)

\* C21: in every snapshot written by either pipeline, a track's
\* artwork_local_path is non-null only if the track has an artwork URL and an
\* image file exists at exactly that path in the images directory; a track
\* without an artwork URL causes no image fetch and has a null
\* artwork_local_path.
C21_ArtworkPathSound ==
    \A f \in DOMAIN data :
        \A k \in 1..Len(data[f].tracks) :
            LET snap == data[f]
                t    == snap.tracks[k]
            IN
            /\ t.artwork_local_path # None
                  => /\ Item(t.item).art
                     /\ FileOfRecord(snap, t) \in DOMAIN images
                     /\ t.artwork_local_path = ImagePath(FileOfRecord(snap, t))
            /\ ~Item(t.item).art
                  => /\ t.artwork_local_path = None
                     /\ ~FetchedFor(snap, t)

C21_Witness ==
    /\ pc = "done"
    /\ result # None
    /\ Len(SnapshotAt(result).tracks) = 3
    /\ ~Item(SnapshotAt(result).tracks[1].item).art
    /\ SnapshotAt(result).tracks[1].artwork_local_path = None
    /\ SnapshotAt(result).tracks[2].artwork_local_path # None
    /\ Item(SnapshotAt(result).tracks[3].item).art
    /\ SnapshotAt(result).tracks[3].artwork_local_path = None

====
